---- MODULE Spec2Model ----
(***************************************************************************)
(* Jumping Ball: a side scroller in which a ball jumps between scrolling   *)
(* platforms.  The model follows src/src/game/Game.cpp (frame loop, death  *)
(* and win rules), src/src/level/Level.cpp (generation, scroll/recycle,    *)
(* scoring, collision, landing) and src/src/player/Player.cpp (physics     *)
(* and the jump state machine).                                            *)
(*                                                                         *)
(* Units.  Positions are pixels, velocities pixels per second, and times   *)
(* are centiseconds.  The program computes in float.  The frame times of   *)
(* the game loop modelled here are 0 s, 0.5 s, 1 s and 1.5 s, which float  *)
(* represents exactly, and the velocities are even whole numbers far below *)
(* 2^24, so the float products value*dt and the sums of the source are the *)
(* whole numbers the model computes (see Scaled).  The screen heights are  *)
(* 450 and 900, whose heightScale (1 and 2) is exact as well.              *)
(***************************************************************************)
EXTENDS Integers, Sequences, FiniteSets, TLC

(***************************************************************************)
(* GameConfig (src/src/config/Config.h)                                    *)
(***************************************************************************)
screenWidth == 800
screenHeight == 450
radius == 20
groundY == screenHeight - 80
gravity == 1000
jumpVelocity == -550
\* 0.25 s, in centiseconds
maxJumpHold == 25
jumpHoldAccel == -1200
scrollSpeed == 220
minGap == 260
maxGap == 420
minPlatformWidth == 120
maxPlatformWidth == 200
platformHeight == 14
minPlatformY == 20
stepUpMin == 15
stepUpMax == 35

\* Level::totalPlatforms (200 by default), the size of the platform pool and
\* the score that completes the level; scaled down for the model.
totalPlatforms == 2
\* GameConfig::cloudCount (10 by default), scaled down for the model.
cloudCount == 1

(***************************************************************************)
(* Inputs of a frame                                                       *)
(***************************************************************************)
\* GetFrameTime() is used as it comes, with no lower and no upper limit
\* (Game.cpp:127).  In centiseconds: a regular frame,
FrameTimes == {50}
\* a stalled frame (the window was dragged, the process was suspended), of
\* less and of more than the 240/220 s in which a platform travels from the
\* ball's left edge to the left margin,
StalledFrameTimes == {100, 150}
\* and any frame that is not a regular one: a frame of no time, or a stalled
\* one.
IrregularFrameTimes == {0} \cup StalledFrameTimes
\* Every frame time of the model
AllFrameTimes == FrameTimes \cup IrregularFrameTimes
\* The number of irregular frames that Spec lets one game have
MaxStalls == 1

\* GetRandomValue(min, max) returns any integer of min..max.  Spec draws a
\* gap near the smallest, the smallest and the largest width and the
\* smallest and the largest step.
GapDraws == {minGap + 12}
WidthDraws == {minPlatformWidth, maxPlatformWidth}
StepDraws == {stepUpMin, stepUpMax}
\* The shortest and the longest frame of the model
ExtremeFrameTimes == {0, 150}
\* The gap of the games that never end: the distance a platform scrolls in
\* the longest frame
LongGapDraws == {330}

\* The draws of the decorative clouds: one value, a multiple of 10.
CloudValue(min, max) == {10 * ((min + 9) \div 10)}

Max(a, b) == IF a >= b THEN a ELSE b
\* std::max where the source has std::min
MinAsMax(a, b) == IF a >= b THEN a ELSE b
Min(a, b) == IF a <= b THEN a ELSE b

\* value (per second) * dt (centiseconds), the float product value * dt.
Scaled(value, dt) == (value * dt) \div 100

\* GetScreenHeight() in Game::run(): the height of the monitor, the base
\* resolution or twice the base resolution
ScreenHeights == {450, 900}

\* value * heightScale, where heightScale = GetScreenHeight() / 450.0f
HeightScaled(value, height) == (value * height) \div 450

\* The members of GameConfig that Game::run() rewrites, as constructed
ConfigConstructed ==
    [gravity |-> gravity, jumpVelocity |-> jumpVelocity,
     jumpHoldAccel |-> jumpHoldAccel]

\* Game::config after the scaling of Game::run() on a screen of that height
ConfigScaled(cfg, height) ==
    [gravity |-> HeightScaled(cfg.gravity, height),
     jumpVelocity |-> HeightScaled(cfg.jumpVelocity, height),
     jumpHoldAccel |-> HeightScaled(cfg.jumpHoldAccel, height)]

VARIABLES
    config,         \* Game::config: gravity, jumpVelocity, jumpHoldAccel
    player,         \* Game::player
    platforms,      \* Level::platforms
    clouds,         \* Level::clouds
    score,          \* Game::score
    gameOver,       \* Game::gameOver
    levelComplete,  \* Game::levelComplete
    cameraOffsetY,  \* Game::cameraOffsetY
    keyDown,        \* the keyboard state of KEY_SPACE in the current frame
    pc,             \* position in Game::run, or in the one call that
                    \* LandingSpec, LevelSpec and PlayerSpec make
    stalls,         \* the irregular frames of the current game so far
    last            \* the locals of the most recent playing Game::update

vars == <<config, player, platforms, clouds, score, gameOver, levelComplete,
          cameraOffsetY, keyDown, pc, stalls, last>>

(***************************************************************************)
(* Player (src/src/player/Player.cpp)                                      *)
(***************************************************************************)
\* The default member initialisers of Player.h
PlayerConstructed ==
    [x |-> 0, y |-> 0, vy |-> 0, rotation |-> 0, jumpsRemaining |-> 2,
     isJumping |-> FALSE, grounded |-> TRUE, hasLeftGround |-> FALSE,
     jumpHoldTimer |-> 0]

PlayerReset ==
    [x |-> screenWidth \div 4, y |-> groundY, vy |-> 0, rotation |-> 0,
     jumpsRemaining |-> 2, isJumping |-> FALSE, grounded |-> TRUE,
     hasLeftGround |-> FALSE, jumpHoldTimer |-> 0]

canJump(p) == p.jumpsRemaining > 0

\* startJump with the jump charge left unconsumed
startJumpFree(p, cfg) ==
    IF p.jumpsRemaining <= 0
    THEN p
    ELSE [p EXCEPT !.vy = cfg.jumpVelocity,
                   !.isJumping = TRUE,
                   !.grounded = FALSE,
                   !.hasLeftGround = TRUE,
                   !.jumpHoldTimer = 0]

\* startJump adding the jump velocity to the current one
startJumpAdds(p, cfg) ==
    IF p.jumpsRemaining <= 0
    THEN p
    ELSE [p EXCEPT !.vy = p.vy + cfg.jumpVelocity,
                   !.isJumping = TRUE,
                   !.grounded = FALSE,
                   !.hasLeftGround = TRUE,
                   !.jumpsRemaining = p.jumpsRemaining - 1,
                   !.jumpHoldTimer = 0]

startJump(p, cfg) ==
    IF p.jumpsRemaining <= 0
    THEN p
    ELSE [p EXCEPT !.vy = cfg.jumpVelocity,
                   !.isJumping = TRUE,
                   !.grounded = FALSE,
                   !.hasLeftGround = TRUE,
                   !.jumpsRemaining = p.jumpsRemaining - 1,
                   !.jumpHoldTimer = 0]

\* Player::update moving the ball before it updates the velocity
PlayerUpdatePositionFirst(p, dt, held, cfg) ==
    LET vy1 == p.vy + Scaled(cfg.gravity, dt)
        hold == held /\ p.isJumping /\ p.jumpHoldTimer < maxJumpHold
        vy2 == IF hold THEN vy1 + Scaled(cfg.jumpHoldAccel, dt) ELSE vy1
        timer == IF hold THEN p.jumpHoldTimer + dt ELSE p.jumpHoldTimer
        rot == p.rotation + Scaled(630, dt)
    IN  [p EXCEPT !.vy = vy2,
                  !.jumpHoldTimer = timer,
                  !.y = p.y + Scaled(p.vy, dt),
                  !.rotation = IF rot >= 360 THEN rot - 360 ELSE rot]

\* Player::update(dt, cfg); held is IsKeyDown(KEY_SPACE)
PlayerUpdate(p, dt, held, cfg) ==
    LET vy1 == p.vy + Scaled(cfg.gravity, dt)
        hold == held /\ p.isJumping /\ p.jumpHoldTimer < maxJumpHold
        vy2 == IF hold THEN vy1 + Scaled(cfg.jumpHoldAccel, dt) ELSE vy1
        timer == IF hold THEN p.jumpHoldTimer + dt ELSE p.jumpHoldTimer
        rot == p.rotation + Scaled(630, dt)
    IN  [p EXCEPT !.vy = vy2,
                  !.jumpHoldTimer = timer,
                  !.y = p.y + Scaled(vy2, dt),
                  !.rotation = IF rot >= 360 THEN rot - 360 ELSE rot]

\* setGrounded with the refill outside the test of groundedState
setGroundedRefillAlways(p, groundedState) ==
    IF groundedState
    THEN [p EXCEPT !.grounded = TRUE, !.isJumping = FALSE, !.jumpsRemaining = 2]
    ELSE [p EXCEPT !.grounded = FALSE, !.jumpsRemaining = 2]

\* setGrounded with a landing that also forgets the first jump
setGroundedForgetful(p, groundedState) ==
    IF groundedState
    THEN [p EXCEPT !.grounded = TRUE, !.isJumping = FALSE, !.jumpsRemaining = 2,
                   !.hasLeftGround = FALSE]
    ELSE [p EXCEPT !.grounded = FALSE]

setGrounded(p, groundedState) ==
    IF groundedState
    THEN [p EXCEPT !.grounded = TRUE, !.isJumping = FALSE, !.jumpsRemaining = 2]
    ELSE [p EXCEPT !.grounded = FALSE]

\* hasJumpedOnce answering from the jump in progress
hasJumpedOnceNow(p) == p.isJumping

hasJumpedOnce(p) == p.hasLeftGround

(***************************************************************************)
(* Level (src/src/level/Level.cpp)                                         *)
(***************************************************************************)
\* The three draws made for one platform, in generate and in scroll
PlatformDraws ==
    [gap : GapDraws \cap minGap..maxGap,
     width : WidthDraws \cap minPlatformWidth..maxPlatformWidth,
     step : StepDraws \cap stepUpMin..stepUpMax]

\* The same draws with the longer gap
LongPlatformDraws ==
    [gap : LongGapDraws \cap minGap..maxGap,
     width : WidthDraws \cap minPlatformWidth..maxPlatformWidth,
     step : StepDraws \cap stepUpMin..stepUpMax]

\* A cloud as drawn by generate
CloudsGenerated ==
    [x : CloudValue(0, screenWidth + 600),
     y : CloudValue(40, screenHeight \div 2),
     w : CloudValue(70, 130),
     speed : CloudValue(15, 35)]

\* The draws of a cloud that scroll respawns
CloudsRespawned ==
    [dx : CloudValue(80, 280),
     y : CloudValue(40, screenHeight \div 2),
     w : CloudValue(70, 130),
     speed : CloudValue(15, 35)]

\* The loop of generate with a cursor that also advances by the width
RECURSIVE GeneratePlatformsWide(_, _, _, _)
GeneratePlatformsWide(draws, i, cursor, yTop) ==
    IF i > totalPlatforms
    THEN <<>>
    ELSE LET c == cursor + draws[i].gap
             y == Max(minPlatformY, yTop - draws[i].step)
         IN  <<[x |-> c, yTop |-> y, width |-> draws[i].width, counted |-> FALSE]>>
             \o GeneratePlatformsWide(draws, i + 1, c + draws[i].width, y)

\* The platform loop of Level::generate from index i on: cursor and yTop are
\* the loop's running values, draws[i] the draws of iteration i.
RECURSIVE GeneratePlatforms(_, _, _, _)
GeneratePlatforms(draws, i, cursor, yTop) ==
    IF i > totalPlatforms
    THEN <<>>
    ELSE LET c == cursor + draws[i].gap
             y == Max(minPlatformY, yTop - draws[i].step)
         IN  <<[x |-> c, yTop |-> y, width |-> draws[i].width, counted |-> FALSE]>>
             \o GeneratePlatforms(draws, i + 1, c, y)

\* The platforms after Level::generate
generate(draws) == GeneratePlatforms(draws, 1, screenWidth + 200, groundY - 20)

\* The clouds after Level::generate; h is 0.6 * w
generateClouds(cd) ==
    [i \in 1..cloudCount |->
        [x |-> cd[i].x, y |-> cd[i].y, w |-> cd[i].w,
         h |-> (cd[i].w * 6) \div 10, speed |-> cd[i].speed]]

\* The first loop of scroll starting one platform late
MovePlatformsSkipFirst(plats, dt) ==
    [i \in 1..totalPlatforms |->
        IF i = 1
        THEN plats[i]
        ELSE [plats[i] EXCEPT !.x = plats[i].x - Scaled(scrollSpeed, dt)]]

\* First loop of Level::scroll: every platform moves left
MovePlatforms(plats, dt) ==
    [i \in 1..totalPlatforms |->
        [plats[i] EXCEPT !.x = plats[i].x - Scaled(scrollSpeed, dt)]]

\* First loop of Level::scroll: rightMost starts at 0.0f
RECURSIVE RightMost(_, _, _)
RightMost(plats, i, rightMost) ==
    IF i > totalPlatforms
    THEN rightMost
    ELSE RightMost(plats, i + 1,
                   IF plats[i].x > rightMost THEN plats[i].x ELSE rightMost)

\* The test of the second loop of Level::scroll
OffScreen(p) == p.x + p.width < -60

\* The second loop of scroll with the new height left unclamped
RECURSIVE RecyclePlatformsUnclamped(_, _, _, _)
RecyclePlatformsUnclamped(plats, i, rightMost, draws) ==
    IF i > totalPlatforms
    THEN plats
    ELSE IF OffScreen(plats[i])
         THEN LET p == [x |-> rightMost + draws[i].gap,
                        yTop |-> plats[i].yTop - draws[i].step,
                        width |-> draws[i].width,
                        counted |-> FALSE]
              IN  RecyclePlatformsUnclamped([plats EXCEPT ![i] = p], i + 1, p.x, draws)
         ELSE RecyclePlatformsUnclamped(plats, i + 1, rightMost, draws)

\* The second loop of scroll with rightMost left as the first loop found it
RECURSIVE RecyclePlatformsStale(_, _, _, _)
RecyclePlatformsStale(plats, i, rightMost, draws) ==
    IF i > totalPlatforms
    THEN plats
    ELSE IF OffScreen(plats[i])
         THEN LET p == [x |-> rightMost + draws[i].gap,
                        yTop |-> Max(minPlatformY, plats[i].yTop - draws[i].step),
                        width |-> draws[i].width,
                        counted |-> FALSE]
              IN  RecyclePlatformsStale([plats EXCEPT ![i] = p], i + 1, rightMost, draws)
         ELSE RecyclePlatformsStale(plats, i + 1, rightMost, draws)

\* The second loop of scroll respawning at the right edge of the screen, as
\* the clouds do
RECURSIVE RecyclePlatformsAtEdge(_, _, _, _)
RecyclePlatformsAtEdge(plats, i, rightMost, draws) ==
    IF i > totalPlatforms
    THEN plats
    ELSE IF OffScreen(plats[i])
         THEN LET p == [x |-> screenWidth + draws[i].gap,
                        yTop |-> Max(minPlatformY, plats[i].yTop - draws[i].step),
                        width |-> draws[i].width,
                        counted |-> FALSE]
              IN  RecyclePlatformsAtEdge([plats EXCEPT ![i] = p], i + 1, p.x, draws)
         ELSE RecyclePlatformsAtEdge(plats, i + 1, rightMost, draws)

\* Second loop of Level::scroll from index i on
RECURSIVE RecyclePlatforms(_, _, _, _)
RecyclePlatforms(plats, i, rightMost, draws) ==
    IF i > totalPlatforms
    THEN plats
    ELSE IF OffScreen(plats[i])
         THEN LET p == [x |-> rightMost + draws[i].gap,
                        yTop |-> Max(minPlatformY, plats[i].yTop - draws[i].step),
                        width |-> draws[i].width,
                        counted |-> FALSE]
              IN  RecyclePlatforms([plats EXCEPT ![i] = p], i + 1, p.x, draws)
         ELSE RecyclePlatforms(plats, i + 1, rightMost, draws)

\* The platforms after Level::scroll(dt); draws[i] are the draws made for a
\* platform i that is recycled.
scroll(plats, dt, draws) ==
    LET moved == MovePlatforms(plats, dt)
    IN  RecyclePlatforms(moved, 1, RightMost(moved, 1, 0), draws)

\* The indices Level::scroll(dt) recycles
Recycled(plats, dt) ==
    {i \in 1..totalPlatforms : OffScreen(MovePlatforms(plats, dt)[i])}

\* Third loop of Level::scroll: the clouds
CloudMoved(c, dt) == [c EXCEPT !.x = c.x - Scaled(c.speed, dt)]

CloudOff(c) == c.x + c.w < -40

scrollClouds(cs, dt, cd) ==
    [i \in 1..cloudCount |->
        LET c == CloudMoved(cs[i], dt)
        IN  IF CloudOff(c)
            THEN [x |-> screenWidth + cd[i].dx, y |-> cd[i].y, w |-> cd[i].w,
                  h |-> (cd[i].w * 6) \div 10, speed |-> cd[i].speed]
            ELSE c]

CloudsOff(cs, dt) == {i \in 1..cloudCount : CloudOff(CloudMoved(cs[i], dt))}

\* Level::awardScore: the platforms it marks and the count it returns
Passed(p, ballX, r) == ~p.counted /\ p.x + p.width < ballX - r

\* awardScore that leaves the platforms it counts unmarked
awardScoreUnmarked(plats, ballX, r) ==
    [platforms |-> plats,
     gained |-> Cardinality({i \in 1..totalPlatforms : Passed(plats[i], ballX, r)})]

awardScore(plats, ballX, r) ==
    [platforms |->
        [i \in 1..totalPlatforms |->
            IF Passed(plats[i], ballX, r)
            THEN [plats[i] EXCEPT !.counted = TRUE]
            ELSE plats[i]],
     gained |-> Cardinality({i \in 1..totalPlatforms : Passed(plats[i], ballX, r)})]

\* The test of Level::checkCollision with a touching ball counted as a hit
HitsPlatformTouching(p, ballX, ballY, r) ==
    LET rx == p.x
        ry == p.yTop
        rw == p.width
        rh == platformHeight
        closestX == IF ballX < rx THEN rx
                    ELSE IF ballX > rx + rw THEN rx + rw ELSE ballX
        closestY == IF ballY < ry THEN ry
                    ELSE IF ballY > ry + rh THEN ry + rh ELSE ballY
        dx == ballX - closestX
        dy == ballY - closestY
    IN  dx * dx + dy * dy <= r * r

\* The body of the loop of Level::checkCollision for one platform
HitsPlatform(p, ballX, ballY, r) ==
    LET rx == p.x
        ry == p.yTop
        rw == p.width
        rh == platformHeight
        closestX == IF ballX < rx THEN rx
                    ELSE IF ballX > rx + rw THEN rx + rw ELSE ballX
        closestY == IF ballY < ry THEN ry
                    ELSE IF ballY > ry + rh THEN ry + rh ELSE ballY
        dx == ballX - closestX
        dy == ballY - closestY
    IN  dx * dx + dy * dy < r * r

\* checkCollision with a loop that starts one platform late
checkCollisionLate(plats, ballX, ballY, r) ==
    \E i \in 2..totalPlatforms : HitsPlatform(plats[i], ballX, ballY, r)

checkCollision(plats, ballX, ballY, r) ==
    \E i \in 1..totalPlatforms : HitsPlatform(plats[i], ballX, ballY, r)

\* The landing test asking for a ball that was strictly above the top
LandingCandidateStrict(p, ballX, prevY, y, r) ==
    /\ y + r >= p.yTop
    /\ prevY + r < p.yTop
    /\ p.x <= ballX
    /\ p.x + p.width >= ballX

\* The test of the loop of Level::resolveLanding for one platform
LandingCandidate(p, ballX, prevY, y, r) ==
    /\ y + r >= p.yTop
    /\ prevY + r <= p.yTop
    /\ p.x <= ballX
    /\ p.x + p.width >= ballX

\* The loop of resolveLanding without the comparison of heights: the last
\* qualifying platform wins
RECURSIVE LandingScanLast(_, _, _, _, _, _, _)
LandingScanLast(plats, i, ballX, prevY, y, r, acc) ==
    IF i > totalPlatforms
    THEN acc
    ELSE IF LandingCandidate(plats[i], ballX, prevY, y, r)
         THEN LandingScanLast(plats, i + 1, ballX, prevY, y, r,
                              [targetY |-> plats[i].yTop, landed |-> TRUE])
         ELSE LandingScanLast(plats, i + 1, ballX, prevY, y, r, acc)

\* The loop of Level::resolveLanding from index i on: targetY and landed
RECURSIVE LandingScan(_, _, _, _, _, _, _)
LandingScan(plats, i, ballX, prevY, y, r, acc) ==
    IF i > totalPlatforms
    THEN acc
    ELSE IF LandingCandidate(plats[i], ballX, prevY, y, r)
            /\ plats[i].yTop < acc.targetY
         THEN LandingScan(plats, i + 1, ballX, prevY, y, r,
                          [targetY |-> plats[i].yTop, landed |-> TRUE])
         ELSE LandingScan(plats, i + 1, ballX, prevY, y, r, acc)

\* resolveLanding whose ground branch stops the ball where it is
resolveLandingKeepsY(plats, ballX, prevY, y, vy, r) ==
    LET start == [targetY |-> groundY, landed |-> FALSE]
        scan == IF vy >= 0
                THEN LandingScan(plats, 1, ballX, prevY, y, r, start)
                ELSE start
    IN  IF scan.landed
        THEN [y |-> scan.targetY - r, vy |-> 0, landed |-> TRUE,
              landedOnGround |-> FALSE]
        ELSE IF y > groundY
             THEN [y |-> y, vy |-> 0, landed |-> TRUE,
                   landedOnGround |-> TRUE]
             ELSE [y |-> y, vy |-> vy, landed |-> FALSE,
                   landedOnGround |-> FALSE]

\* Level::resolveLanding: the new y and vy, the return value (landed) and the
\* out-parameter landedOnGround
\* resolveLanding that looks for a platform whatever vy is
resolveLandingUnguarded(plats, ballX, prevY, y, vy, r) ==
    LET start == [targetY |-> groundY, landed |-> FALSE]
        scan == LandingScan(plats, 1, ballX, prevY, y, r, start)
    IN  IF scan.landed
        THEN [y |-> scan.targetY - r, vy |-> 0, landed |-> TRUE, landedOnGround |-> FALSE]
        ELSE IF y > groundY
             THEN [y |-> groundY, vy |-> 0, landed |-> TRUE, landedOnGround |-> TRUE]
             ELSE [y |-> y, vy |-> vy, landed |-> FALSE, landedOnGround |-> FALSE]

resolveLanding(plats, ballX, prevY, y, vy, r) ==
    LET start == [targetY |-> groundY, landed |-> FALSE]
        scan == IF vy >= 0
                THEN LandingScan(plats, 1, ballX, prevY, y, r, start)
                ELSE start
    IN  IF scan.landed
        THEN [y |-> scan.targetY - r, vy |-> 0, landed |-> TRUE,
              landedOnGround |-> FALSE]
        ELSE IF y > groundY
             THEN [y |-> groundY, vy |-> 0, landed |-> TRUE,
                   landedOnGround |-> TRUE]
             ELSE [y |-> y, vy |-> vy, landed |-> FALSE,
                   landedOnGround |-> FALSE]

(***************************************************************************)
(* Game (src/src/game/Game.cpp)                                            *)
(***************************************************************************)
\* No Game::update has run yet
NoFrame ==
    [ran |-> FALSE, dt |-> 0, prevY |-> 0, midY |-> 0, midVy |-> 0,
     landed |-> FALSE, landedOnGround |-> FALSE, gained |-> 0, hit |-> FALSE]

\* The state after the constructor Game::Game(): the default member
\* initialisers, an empty level.
Init ==
    /\ config = ConfigConstructed
    /\ player = PlayerConstructed
    /\ platforms = <<>>
    /\ clouds = <<>>
    /\ score = 0
    /\ gameOver = FALSE
    /\ levelComplete = FALSE
    /\ cameraOffsetY = 0
    /\ keyDown = FALSE
    /\ pc = "run"
    /\ stalls = 0
    /\ last = NoFrame

\* reset that leaves the score of the game before
resetKeepsScore(draws, cd) ==
    /\ player' = PlayerReset
    /\ platforms' = generate(draws)
    /\ clouds' = generateClouds(cd)
    /\ score' = score
    /\ gameOver' = FALSE
    /\ levelComplete' = FALSE
    /\ cameraOffsetY' = 0
    /\ stalls' = 0

\* Game::reset(): draws and cd are the random draws of Level::generate
reset(draws, cd) ==
    /\ player' = PlayerReset
    /\ platforms' = generate(draws)
    /\ clouds' = generateClouds(cd)
    /\ score' = 0
    /\ gameOver' = FALSE
    /\ levelComplete' = FALSE
    /\ cameraOffsetY' = 0
    /\ stalls' = 0

\* Game::run() up to its loop: the physics constants are scaled by
\* heightScale = GetScreenHeight() / 450, then reset() builds the first game.
RunDrawing(Draws) ==
    /\ pc = "run"
    /\ \E height \in ScreenHeights : config' = ConfigScaled(config, height)
    /\ \E draws \in [1..totalPlatforms -> Draws],
          cd \in [1..cloudCount -> CloudsGenerated] : reset(draws, cd)
    /\ pc' = "handleInput"
    /\ UNCHANGED <<keyDown, last>>

Run == RunDrawing(PlatformDraws)

\* handleInput without the return after reset(): the press that restarts the
\* game goes on to the jump test
HandleInputFallsThrough ==
    /\ pc = "handleInput"
    /\ \E key \in BOOLEAN :
        LET pressed == key /\ ~keyDown
        IN  /\ keyDown' = key
            /\ IF gameOver \/ levelComplete
               THEN IF pressed
                    THEN \E draws \in [1..totalPlatforms -> PlatformDraws],
                            cd \in [1..cloudCount -> CloudsGenerated] :
                                /\ player' = startJump(PlayerReset, config)
                                /\ platforms' = generate(draws)
                                /\ clouds' = generateClouds(cd)
                                /\ score' = 0
                                /\ gameOver' = FALSE
                                /\ levelComplete' = FALSE
                                /\ cameraOffsetY' = 0
                                /\ stalls' = 0
                    ELSE UNCHANGED <<player, platforms, clouds, score, gameOver,
                                     levelComplete, cameraOffsetY, stalls>>
               ELSE /\ player' = IF canJump(player) /\ pressed
                                 THEN startJump(player, config)
                                 ELSE player
                    /\ UNCHANGED <<platforms, clouds, score, gameOver,
                                   levelComplete, cameraOffsetY, stalls>>
    /\ pc' = "update"
    /\ UNCHANGED <<config, last>>

\* Game::handleInput().  key is the state of KEY_SPACE polled at the end of
\* the previous frame; IsKeyPressed is "down now and up in the frame before".
HandleInputDrawing(Draws) ==
    /\ pc = "handleInput"
    /\ \E key \in BOOLEAN :
        LET pressed == key /\ ~keyDown
        IN  /\ keyDown' = key
            /\ IF gameOver \/ levelComplete
               THEN IF pressed
                    THEN \E draws \in [1..totalPlatforms -> Draws],
                            cd \in [1..cloudCount -> CloudsGenerated] :
                                reset(draws, cd)
                    ELSE UNCHANGED <<player, platforms, clouds, score, gameOver,
                                     levelComplete, cameraOffsetY, stalls>>
               ELSE /\ player' = IF canJump(player) /\ pressed
                                 THEN startJump(player, config)
                                 ELSE player
                    /\ UNCHANGED <<platforms, clouds, score, gameOver,
                                   levelComplete, cameraOffsetY, stalls>>
    /\ pc' = "update"
    /\ UNCHANGED <<config, last>>

HandleInput == HandleInputDrawing(PlatformDraws)

\* The win test of Game::update() with a strict comparison
levelWonStrict(s) == s > totalPlatforms

\* The win test of Game::update(): score >= config.totalPlatforms
levelWon(s) == s >= totalPlatforms

\* The body of Game::update() in a playing frame.  Each local of the function
\* is bound once, in the order the function computes it: prevY, the player
\* after Player::update, the platforms after Level::scroll, the result of
\* resolveLanding, the player after setGrounded, the result of awardScore
\* and the result of checkCollision.
Playing(dt, draws, cd) ==
    \E prevY \in {player.y},
       moved \in {PlayerUpdate(player, dt, keyDown, config)},
       scrolled \in {scroll(platforms, dt, draws)} :
    \E land \in {resolveLanding(scrolled, moved.x, prevY, moved.y, moved.vy, radius)} :
    \E p \in {setGrounded([moved EXCEPT !.y = land.y, !.vy = land.vy], land.landed)} :
    \E desiredScreenY \in {(screenHeight * 4) \div 10},
       died \in {land.landedOnGround /\ hasJumpedOnce(p)},
       award \in {awardScore(scrolled, p.x, radius)} :
    \E won \in {levelWon(score + award.gained)},
       hit \in {checkCollision(award.platforms, p.x, p.y, radius)} :
        /\ player' = p
        /\ platforms' = award.platforms
        /\ clouds' = scrollClouds(clouds, dt, cd)
        /\ cameraOffsetY' = Min(0, p.y - desiredScreenY)
        /\ score' = score + award.gained
        /\ levelComplete' = IF won THEN TRUE ELSE levelComplete
        /\ gameOver' = IF died \/ hit THEN TRUE ELSE gameOver
        /\ stalls' = IF dt \in IrregularFrameTimes
                     THEN Min(MaxStalls, stalls + 1)
                     ELSE stalls
        /\ last' = [ran |-> TRUE, dt |-> dt, prevY |-> prevY, midY |-> moved.y,
                    midVy |-> moved.vy, landed |-> land.landed,
                    landedOnGround |-> land.landedOnGround,
                    gained |-> award.gained, hit |-> hit]

\* The values GetFrameTime() may return in the current frame of Spec: a
\* regular frame, or an irregular one while the game has had fewer than
\* MaxStalls of them
FrameTimesNow ==
    FrameTimes \cup (IF stalls < MaxStalls THEN IrregularFrameTimes ELSE {})

\* update without the early return of a game that has ended
UpdateUnpaused ==
    /\ pc = "update"
    /\ \E dt \in FrameTimesNow :
       \E draws \in [Recycled(platforms, dt) -> PlatformDraws],
          cd \in [CloudsOff(clouds, dt) -> CloudsRespawned] :
            Playing(dt, draws, cd)
    /\ pc' = "handleInput"
    /\ UNCHANGED <<config, keyDown>>

\* Game::update(), followed by draw() (which changes no state).  Times are
\* the values GetFrameTime() may return, Draws the values of the draws that
\* Level::scroll makes.
UpdateDrawing(Times, Draws) ==
    /\ pc = "update"
    /\ IF gameOver \/ levelComplete
       THEN UNCHANGED <<player, platforms, clouds, score, gameOver,
                        levelComplete, cameraOffsetY, stalls, last>>
       ELSE \E dt \in Times :
            \E draws \in [Recycled(platforms, dt) -> Draws],
               cd \in [CloudsOff(clouds, dt) -> CloudsRespawned] :
                    Playing(dt, draws, cd)
    /\ pc' = "handleInput"
    /\ UNCHANGED <<config, keyDown>>

Update == UpdateDrawing(FrameTimesNow, PlatformDraws)

Next == Run \/ HandleInput \/ Update

Spec == Init /\ [][Next]_vars

(***************************************************************************)
(* The game with the jump key never pressed, and the game whose frames     *)
(* keep coming                                                             *)
(***************************************************************************)
\* Player::update takes 360 off the angle once a frame, so the angle grows
\* in a frame of more than 360/630 s and shrinks in a shorter one.  A game
\* that never ends is followed for as long as the angle stays within
\* RotationMax: these are the frame times that keep it there.
RotationMax == 1024

FrameTimesWithin(Times) ==
    {dt \in Times :
        PlayerUpdate(player, dt, keyDown, config).rotation <= RotationMax}

\* A step of the game, with a frame of no time or the longest frame as long
\* as it keeps the angle within RotationMax, in which KEY_SPACE is up
IdleNext ==
    /\ \/ RunDrawing(LongPlatformDraws)
       \/ HandleInputDrawing(LongPlatformDraws)
       \/ UpdateDrawing(FrameTimesWithin(ExtremeFrameTimes), LongPlatformDraws)
    /\ ~keyDown'

\* Game::run() with the key never pressed.  The loop of run() goes on to the
\* next frame for as long as the window is open, so a frame step that can be
\* taken is taken.
IdleSpec == Init /\ [][IdleNext]_vars /\ WF_vars(IdleNext)

\* Game::run() with any input, its loop going on to the next frame for as
\* long as the window is open
FairSpec == Init /\ [][Next]_vars /\ WF_vars(Next)

(***************************************************************************)
(* Level::resolveLanding as a function of its arguments                    *)
(***************************************************************************)
\* The platforms a call may find in the level.  Level::generate takes its
\* gaps and widths from the GameConfig it is given, so a level whose gaps are
\* smaller than its widths holds platforms that overlap horizontally: x = 100
\* spans the ball's x (200) and x = 300 does not.
LandingPlatforms ==
    [x : {100, 300}, yTop : {280, 315, groundY - 20},
     width : {minPlatformWidth}, counted : {FALSE}]

\* The arguments prevY, y and vy of a call.  Game::update passes the y of
\* the frame before, which is never below the ground, and the y and vy that
\* Player::update leaves.
LandingPrevY == {250, 295, groundY}
LandingY == {240, 250, 295, 340, groundY, 380}
LandingVy == {jumpVelocity, 0, 300}

\* Player::update leaves y = prevY + vy * dt with dt >= 0: a rising ball is
\* no lower than it was (and where it was after a frame of no time), a
\* falling ball no higher, a ball at rest where it was
MovedBy(prevY, y, vy) ==
    /\ vy < 0 => y <= prevY
    /\ vy > 0 => y >= prevY
    /\ vy = 0 => y = prevY

\* A level and the arguments of one call: player holds ballX, y and vy,
\* last.prevY holds prevY
LandingInit ==
    /\ config = ConfigConstructed
    /\ platforms \in [1..totalPlatforms -> LandingPlatforms]
    /\ \E y \in LandingY, vy \in LandingVy :
            player = [PlayerReset EXCEPT !.y = y, !.vy = vy, !.grounded = FALSE]
    /\ \E prevY \in LandingPrevY :
            /\ last = [NoFrame EXCEPT !.prevY = prevY]
            /\ MovedBy(prevY, player.y, player.vy)
    /\ clouds = <<>>
    /\ score = 0
    /\ gameOver = FALSE
    /\ levelComplete = FALSE
    /\ cameraOffsetY = 0
    /\ keyDown = FALSE
    /\ pc = "resolveLanding"
    /\ stalls = 0

\* One call of Level::resolveLanding: y and vy are written through the
\* references, last keeps the arguments and the two results
ResolveLandingCall ==
    /\ pc = "resolveLanding"
    /\ \E land \in {resolveLanding(platforms, player.x, last.prevY, player.y,
                                    player.vy, radius)} :
        /\ player' = [player EXCEPT !.y = land.y, !.vy = land.vy]
        /\ last' = [last EXCEPT !.ran = TRUE, !.midY = player.y,
                                !.midVy = player.vy, !.landed = land.landed,
                                !.landedOnGround = land.landedOnGround]
    /\ pc' = "returned"
    /\ UNCHANGED <<config, platforms, clouds, score, gameOver, levelComplete,
                   cameraOffsetY, keyDown, stalls>>

LandingNext == ResolveLandingCall

LandingSpec == LandingInit /\ [][LandingNext]_vars

(***************************************************************************)
(* Level::scroll as a function of the level it finds                       *)
(***************************************************************************)
\* The frame times Level::scroll is called with
ScrollTimes == AllFrameTimes

\* A level at some point of its life is a chain of platforms as generate and
\* the recycling of scroll lay them out (each platform a gap to the right of
\* the one before and a step higher), starting from some cursor and height:
\* screenWidth + 200 and groundY - 20 right after generate, further left and
\* higher later on.
LevelCursors == {-520, -460, -400, -200, screenWidth + 200}
LevelTops == {groundY - 20, 60, minPlatformY}

\* After k recyclings the chain starts at index k + 1
Rotated(chain, k) ==
    [i \in 1..totalPlatforms |-> chain[((i - 1 + k) % totalPlatforms) + 1]]

\* The clouds scroll may find: as generated, or about to leave the screen
LevelClouds ==
    {[i \in 1..cloudCount |-> [cs[i] EXCEPT !.x = x]] :
        cs \in {generateClouds(cd) : cd \in [1..cloudCount -> CloudsGenerated]},
        x \in {0, -108}}

\* The level scroll is called on: awardScore has counted the platforms behind
\* the ball, and the scroll before has left no platform beyond the left margin
LevelInit ==
    /\ \E draws \in [1..totalPlatforms -> PlatformDraws],
          cursor \in LevelCursors, yTop \in LevelTops, k \in 0..(totalPlatforms - 1) :
            platforms = awardScore(Rotated(GeneratePlatforms(draws, 1, cursor, yTop), k),
                                   PlayerReset.x, radius).platforms
    /\ \A i \in 1..totalPlatforms : ~OffScreen(platforms[i])
    /\ clouds \in LevelClouds
    /\ config = ConfigConstructed
    /\ player = PlayerReset
    /\ last = NoFrame
    /\ score = 0
    /\ gameOver = FALSE
    /\ levelComplete = FALSE
    /\ cameraOffsetY = 0
    /\ keyDown = FALSE
    /\ pc = "scroll"
    /\ stalls = 0

\* One call of Level::scroll(dt, cfg); last keeps dt
LevelScroll ==
    /\ pc = "scroll"
    /\ \E dt \in ScrollTimes :
       \E draws \in [Recycled(platforms, dt) -> PlatformDraws],
          cd \in [CloudsOff(clouds, dt) -> CloudsRespawned] :
            /\ platforms' = scroll(platforms, dt, draws)
            /\ clouds' = scrollClouds(clouds, dt, cd)
            /\ last' = [NoFrame EXCEPT !.ran = TRUE, !.dt = dt]
    /\ pc' = "returned"
    /\ UNCHANGED <<config, player, score, gameOver, levelComplete,
                   cameraOffsetY, keyDown, stalls>>

LevelNext == LevelScroll

LevelSpec == LevelInit /\ [][LevelNext]_vars

(***************************************************************************)
(* Player::update as a function of the player and the frame time           *)
(***************************************************************************)
\* The frame times of a call: none, 0.1 s, a regular frame, a stalled one.
\* 0.1 s is not exact in float; on the players of PlayerStates each float
\* product with it rounds to the whole number Scaled gives.
PlayerTimes == {0, 10} \cup FrameTimes \cup StalledFrameTimes

\* The players a call may find: on the ground or in the air, still, rising
\* or falling, in a jump or not, early or late in the hold of the key
PlayerStates ==
    {[PlayerReset EXCEPT !.y = y, !.vy = vy, !.isJumping = j,
                         !.jumpHoldTimer = t, !.rotation = rot] :
        y \in {groundY, 260, 100},
        vy \in {jumpVelocity, -250, 0, 300},
        j \in BOOLEAN,
        t \in {0, 20, 50},
        rot \in {0, 189}}

PlayerInit ==
    /\ config \in {ConfigScaled(ConfigConstructed, h) : h \in ScreenHeights}
    /\ player \in PlayerStates
    /\ keyDown \in BOOLEAN
    /\ platforms = <<>>
    /\ clouds = <<>>
    /\ score = 0
    /\ gameOver = FALSE
    /\ levelComplete = FALSE
    /\ cameraOffsetY = 0
    /\ pc = "playerUpdate"
    /\ stalls = 0
    /\ last = NoFrame

\* One call of Player::update(dt, cfg); keyDown is IsKeyDown(KEY_SPACE) and
\* last keeps dt
PlayerUpdateCall ==
    /\ pc = "playerUpdate"
    /\ \E dt \in PlayerTimes :
            /\ player' = PlayerUpdate(player, dt, keyDown, config)
            /\ last' = [NoFrame EXCEPT !.ran = TRUE, !.dt = dt]
    /\ pc' = "returned"
    /\ UNCHANGED <<config, platforms, clouds, score, gameOver, levelComplete,
                   cameraOffsetY, keyDown, stalls>>

PlayerNext == PlayerUpdateCall

PlayerSpec == PlayerInit /\ [][PlayerNext]_vars

(***************************************************************************)
(* Player::startJump as a function of the player                           *)
(***************************************************************************)
\* The players a call may find: with 0, 1 or 2 jumps left, on a surface or in
\* the air, before or after the first jump, still, rising or falling
JumpStates ==
    {[PlayerReset EXCEPT !.y = y, !.vy = vy, !.jumpsRemaining = n,
                         !.isJumping = j, !.grounded = g,
                         !.hasLeftGround = h, !.jumpHoldTimer = t] :
        y \in {groundY, 260},
        vy \in {jumpVelocity, -250, 0, 300},
        n \in 0..2,
        j \in BOOLEAN, g \in BOOLEAN, h \in BOOLEAN,
        t \in {0, 50}}

JumpInit ==
    /\ config \in {ConfigScaled(ConfigConstructed, h) : h \in ScreenHeights}
    /\ player \in JumpStates
    /\ keyDown = TRUE
    /\ platforms = <<>>
    /\ clouds = <<>>
    /\ score = 0
    /\ gameOver = FALSE
    /\ levelComplete = FALSE
    /\ cameraOffsetY = 0
    /\ pc = "startJump"
    /\ stalls = 0
    /\ last = NoFrame

\* One call of Player::startJump(cfg); last.midVy keeps the vy the call found
StartJumpCall ==
    /\ pc = "startJump"
    /\ player' = startJump(player, config)
    /\ last' = [NoFrame EXCEPT !.ran = TRUE, !.midVy = player.vy]
    /\ pc' = "returned"
    /\ UNCHANGED <<config, platforms, clouds, score, gameOver, levelComplete,
                   cameraOffsetY, keyDown, stalls>>

JumpNext == StartJumpCall

JumpSpec == JumpInit /\ [][JumpNext]_vars

(***************************************************************************)
(* Level::generate as a function of its random draws                       *)
(***************************************************************************)
\* The draws of one platform: the ends of each range and a gap in between
GenerateDraws ==
    [gap : {minGap, 340, maxGap},
     width : {minPlatformWidth, maxPlatformWidth},
     step : {stepUpMin, stepUpMax}]

\* The cursor and yTop the platform loop runs from: those of its start
\* (startX, groundY - 20), and those it has reached late in a level of many
\* platforms, where the steps up meet minPlatformY
GenerateStarts ==
    {<<screenWidth + 200, groundY - 20>>, <<5000, 60>>, <<9000, minPlatformY>>}

GenerateInit ==
    /\ config = ConfigConstructed
    /\ platforms = <<>>
    /\ clouds = <<>>
    /\ player = PlayerConstructed
    /\ score = 0
    /\ gameOver = FALSE
    /\ levelComplete = FALSE
    /\ cameraOffsetY = 0
    /\ keyDown = FALSE
    /\ pc = "generate"
    /\ stalls = 0
    /\ last = NoFrame

\* One call of Level::generate(cfg): totalPlatforms iterations of the
\* platform loop, then the clouds.  last.prevY keeps the yTop the iterations
\* ran from.
GenerateCall ==
    /\ pc = "generate"
    /\ \E draws \in [1..totalPlatforms -> GenerateDraws],
          start \in GenerateStarts,
          cd \in [1..cloudCount -> CloudsGenerated] :
            /\ platforms' = GeneratePlatforms(draws, 1, start[1], start[2])
            /\ clouds' = generateClouds(cd)
            /\ last' = [NoFrame EXCEPT !.ran = TRUE, !.prevY = start[2]]
    /\ pc' = "returned"
    /\ UNCHANGED <<config, player, score, gameOver, levelComplete,
                   cameraOffsetY, keyDown, stalls>>

GenerateNext == GenerateCall

GenerateSpec == GenerateInit /\ [][GenerateNext]_vars

(***************************************************************************)
(* Properties                                                              *)
(***************************************************************************)
\* The state right after a Game::update() that ran its body; last holds the
\* locals of that call and platforms is the level after its scroll.
AfterFrame == pc = "handleInput" /\ last.ran

\* Game::update() is about to run its body
PlayingFrame == pc = "update" /\ ~gameOver /\ ~levelComplete

\* Game::handleInput() is about to call reset(), or Game::run() is
ResetStep ==
    \/ pc = "run"
    \/ pc = "handleInput" /\ (gameOver \/ levelComplete) /\ ~keyDown /\ keyDown'

\* In the last frame the falling ball crossed the top plane of platform i
\* while horizontally within it
CrossedTop(i) ==
    /\ last.midVy >= 0
    /\ last.prevY + radius <= platforms[i].yTop
    /\ platforms[i].yTop <= last.midY + radius
    /\ platforms[i].x <= player.x
    /\ player.x <= platforms[i].x + platforms[i].width

\* C1: a frame in which the falling ball crosses a platform's top plane while
\* horizontally within the platform ends with the ball landed on that top
\* (y = yTop - radius, vy = 0, grounded) and does not set gameOver.
C1_LandingIsNotDeath ==
    AfterFrame =>
        \A i \in DOMAIN platforms :
            CrossedTop(i) =>
                /\ player.y = platforms[i].yTop - radius
                /\ player.vy = 0
                /\ player.grounded
                /\ ~gameOver

\* C1 witness: the ball came down from a jump onto a platform top
C1_Witness ==
    /\ AfterFrame
    /\ \E i \in DOMAIN platforms : CrossedTop(i)
    /\ player.hasLeftGround
    /\ last.midY > player.y
    /\ last.landed /\ ~last.landedOnGround

\* C2: a frame whose resolveLanding reports landedOnGround sets gameOver when
\* hasLeftGround is true; when hasLeftGround is false the ground contact sets
\* nothing, so gameOver is set only if checkCollision reports a hit.
C2_DeathRule ==
    (AfterFrame /\ last.landedOnGround) =>
        (gameOver <=> (player.hasLeftGround \/ last.hit))

\* C2 witness: the ball fell back to the ground after a jump and died, with
\* no platform hit
C2_Witness ==
    /\ AfterFrame
    /\ last.landedOnGround
    /\ player.hasLeftGround
    /\ ~last.hit
    /\ gameOver

\* C3: gameOver and levelComplete are never both true.
C3_FlagsExclusive == ~(gameOver /\ levelComplete)

\* C4: in every state levelComplete holds exactly when the score has reached
\* totalPlatforms.
C4_WinTrigger == levelComplete <=> (score >= totalPlatforms)

\* C4 witness: the frame that counted the last platform completed the level
C4_Witness ==
    /\ AfterFrame
    /\ last.gained = 1
    /\ score = totalPlatforms
    /\ levelComplete

\* C5: the score stays within 0..totalPlatforms.
C5_ScoreInRange == 0 <= score /\ score <= totalPlatforms

\* The ball's circle strictly overlaps the rectangle of platform p
Overlaps(p) ==
    LET cx == Max(p.x, Min(player.x, p.x + p.width))
        cy == Max(p.yTop, Min(player.y, p.yTop + platformHeight))
    IN  (player.x - cx) * (player.x - cx) + (player.y - cy) * (player.y - cy)
            < radius * radius

\* C6: whenever the ball's circle strictly overlaps a platform rectangle the
\* game is over: no update leaves the game playing with the ball inside a
\* platform.
C6_ContactIsFatal ==
    (\E i \in DOMAIN platforms : Overlaps(platforms[i])) => gameOver

\* C6 witness: a frame ended with the ball inside a platform
C6_Witness ==
    /\ AfterFrame
    /\ \E i \in DOMAIN platforms : Overlaps(platforms[i])
    /\ gameOver

\* C7: jumpsRemaining is always 0, 1 or 2; handleInput changes the player of
\* a running game only by a jump that canJump() allowed and that consumed
\* exactly one charge, so at most two jumps take effect between groundings.
C7_DoubleJump ==
    /\ [](player.jumpsRemaining \in 0..2)
    /\ [][(pc = "handleInput" /\ ~gameOver /\ ~levelComplete /\ player' # player)
            => /\ canJump(player)
               /\ player'.jumpsRemaining = player.jumpsRemaining - 1
               /\ player'.vy = config.jumpVelocity]_vars

\* C7 witness: both jumps are spent in mid-air
C7_Witness ==
    /\ player.jumpsRemaining = 0
    /\ ~player.grounded
    /\ ~gameOver /\ ~levelComplete

\* C8: jumpsRemaining grows only to 2, and only in a reset or in an update
\* whose resolveLanding reported a landing.
C8_RefillOnlyOnLanding ==
    [][player'.jumpsRemaining > player.jumpsRemaining
        => /\ player'.jumpsRemaining = 2
           /\ \/ ResetStep
              \/ PlayingFrame /\ last'.landed]_vars

\* C8 witness: a landing on a platform refilled the jumps spent in the air
C8_Witness ==
    /\ AfterFrame
    /\ last.landed /\ ~last.landedOnGround
    /\ last.midY > player.y
    /\ player.hasLeftGround
    /\ player.jumpsRemaining = 2
    /\ ~gameOver

\* C9: hasLeftGround goes back to false only in a reset.
C9_HasLeftGroundMonotonic ==
    [][(player.hasLeftGround /\ ~player'.hasLeftGround)
        => (ResetStep /\ player' = PlayerReset)]_vars

\* C9 witness: the ball has jumped, landed on a platform and jumped again
C9_Witness ==
    /\ player.hasLeftGround
    /\ last.ran /\ last.landed /\ ~last.landedOnGround
    /\ ~player.grounded
    /\ player.jumpsRemaining = 1
    /\ ~gameOver

\* C10: a second awardScore with the same ball position and no scroll in
\* between returns 0; a platform already counted and not recycled by the
\* frame's scroll stays counted and adds nothing to the frame's gain, which
\* is the number of platforms the frame newly marks.
C10_NoRecount ==
    /\ [](AfterFrame => awardScore(platforms, player.x, radius).gained = 0)
    /\ [][PlayingFrame =>
            LET old == {i \in DOMAIN platforms :
                            /\ platforms[i].counted
                            /\ i \notin Recycled(platforms, last'.dt)}
            IN  /\ \A i \in old : platforms'[i].counted
                /\ last'.gained =
                     Cardinality({i \in DOMAIN platforms \ old :
                                      platforms'[i].counted})
                /\ score' = score + last'.gained]_vars

\* C10 witness: a frame found a platform that an earlier frame had counted
\* still in the level behind the ball, and gained nothing
C10_Witness ==
    /\ AfterFrame
    /\ last.gained = 0
    /\ score = 1
    /\ ~gameOver
    /\ \E i \in DOMAIN platforms :
            /\ platforms[i].counted
            /\ platforms[i].x + platforms[i].width < player.x - radius

\* The platforms that qualify as landing candidates in the call last records
Candidates ==
    {i \in DOMAIN platforms :
        /\ last.midY + radius >= platforms[i].yTop
        /\ last.prevY + radius <= platforms[i].yTop
        /\ platforms[i].x <= player.x
        /\ player.x <= platforms[i].x + platforms[i].width}

\* The call of resolveLanding has returned
Returned == pc = "returned"

\* C11: when the ball is not rising and one or more platforms qualify, the
\* call snaps the ball to the smallest yTop among them (y = yTop - radius,
\* vy = 0) and returns landed with landedOnGround false; with an exact tie
\* the first of the tied platforms is kept, which gives the same result.
C11_LandingPrecedence ==
    (Returned /\ last.midVy >= 0 /\ Candidates # {}) =>
        \E i \in Candidates :
            /\ \A j \in Candidates : platforms[i].yTop <= platforms[j].yTop
            /\ player.y = platforms[i].yTop - radius
            /\ player.vy = 0
            /\ last.landed
            /\ ~last.landedOnGround

\* C11 witness: two platforms at different heights qualified, the higher one
\* later in index order, and the ball is on the higher one
C11_Witness ==
    /\ Returned
    /\ last.midVy >= 0
    /\ \E i, j \in Candidates :
            /\ i < j
            /\ platforms[j].yTop < platforms[i].yTop
            /\ player.y = platforms[j].yTop - radius
            /\ last.landed

\* C12: every platform of the level has minPlatformY <= yTop <= groundY - 20
\* and minPlatformWidth <= width <= maxPlatformWidth, in the levels generate
\* and earlier recycling lay out and after a further scroll.
C12_PlatformBounds ==
    \A i \in DOMAIN platforms :
        /\ minPlatformY <= platforms[i].yTop
        /\ platforms[i].yTop <= groundY - 20
        /\ minPlatformWidth <= platforms[i].width
        /\ platforms[i].width <= maxPlatformWidth

\* C12 witness: scroll has recycled a platform whose step up would have gone
\* above minPlatformY.  The platform is uncounted and stands on screen at
\* least a gap right of the origin, where only recycling puts one.
C12_Witness ==
    /\ Returned
    /\ \E i \in DOMAIN platforms :
            /\ platforms[i].yTop = minPlatformY
            /\ ~platforms[i].counted
            /\ platforms[i].x >= minGap
            /\ platforms[i].x < screenWidth

\* The distance scroll moves the platforms in the call being made
Shift == (scrollSpeed * last'.dt) \div 100

\* Platform i is beyond the left margin once the call has moved it
MovedOff(i) == platforms[i].x - Shift + platforms[i].width < -60

\* C13: scroll(dt) moves every platform left by scrollSpeed * dt; a platform
\* that is still within the left margin after the move keeps the moved x and
\* its yTop, width and counted, and only a platform that the move took beyond
\* the margin ends anywhere else.
C13_ScrollMoves ==
    [][pc = "scroll" =>
        \A i \in DOMAIN platforms :
            /\ ~MovedOff(i) =>
                    /\ platforms'[i].x = platforms[i].x - Shift
                    /\ platforms'[i].yTop = platforms[i].yTop
                    /\ platforms'[i].width = platforms[i].width
                    /\ platforms'[i].counted = platforms[i].counted
            /\ platforms'[i].x # platforms[i].x - Shift => MovedOff(i)]_vars

\* C13 witness: after a scroll a counted platform is still in the level,
\* left of the ball, next to an uncounted one
C13_Witness ==
    /\ Returned
    /\ \E i, j \in DOMAIN platforms :
            /\ platforms[i].counted
            /\ platforms[i].x + platforms[i].width < player.x - radius
            /\ ~platforms[j].counted

\* rightMost when the second loop of scroll reaches platform i: the origin,
\* the moved platforms and the platforms recycled before i
RightMostAt(i) ==
    LET xs == {0} \cup {platforms[j].x - Shift : j \in DOMAIN platforms}
                  \cup {platforms'[j].x : j \in {k \in 1..(i - 1) : MovedOff(k)}}
    IN  CHOOSE m \in xs : \A x \in xs : x <= m

\* C14: scroll relocates exactly the platforms whose right edge is left of
\* -60 after the move.  Each goes to rightMost + gap with gap in
\* minGap..maxGap, right of the left edge of every other platform at that
\* moment, uncounted; the platforms recycled in one call are ordered left to
\* right by index; the pool keeps its totalPlatforms platforms.
C14_Recycling ==
    [][pc = "scroll" =>
        /\ DOMAIN platforms' = 1..totalPlatforms
        /\ \A i \in DOMAIN platforms :
            IF MovedOff(i)
            THEN /\ platforms'[i].x - RightMostAt(i) \in minGap..maxGap
                 /\ ~platforms'[i].counted
                 /\ \A j \in DOMAIN platforms \ {i} :
                        IF MovedOff(j)
                        THEN (j < i) <=> (platforms'[j].x < platforms'[i].x)
                        ELSE platforms'[j].x < platforms'[i].x
            ELSE platforms'[i].x = platforms[i].x - Shift]_vars

\* C14 witness: a stalled frame has recycled two platforms in one call; every
\* platform had moved left of the origin, so the first went a gap right of
\* it and the second a gap further
C14_Witness ==
    /\ Returned
    /\ last.dt \in StalledFrameTimes
    /\ \E i, j \in DOMAIN platforms, gap \in GapDraws :
            /\ i < j
            /\ platforms[i].x = gap
            /\ platforms[j].x = platforms[i].x + gap
            /\ ~platforms[i].counted /\ ~platforms[j].counted

\* Game::handleInput() sees a fresh press of the jump key while the game has
\* ended
Restart ==
    /\ pc = "handleInput"
    /\ gameOver \/ levelComplete
    /\ ~keyDown /\ keyDown'

\* The state Game::reset() leaves: score, flags and camera cleared, the ball
\* at its start, a fresh level to the right of the screen, nothing counted
Restarted ==
    /\ score' = 0
    /\ ~gameOver' /\ ~levelComplete'
    /\ cameraOffsetY' = 0
    /\ player'.x = screenWidth \div 4
    /\ player'.y = groundY
    /\ player'.vy = 0
    /\ player'.jumpsRemaining = 2
    /\ ~player'.hasLeftGround
    /\ DOMAIN platforms' = 1..totalPlatforms
    /\ \A i \in DOMAIN platforms' :
            /\ ~platforms'[i].counted
            /\ platforms'[i].x >= screenWidth + 200 + i * minGap
            /\ platforms'[i].x <= screenWidth + 200 + i * maxGap

\* C15: a flag that is true goes back to false only in the handleInput that
\* sees a fresh press of the jump key, and that handleInput leaves the state
\* reset() builds: a new game in the Playing state.
C15_TerminalUntilReset ==
    /\ [][((gameOver /\ ~gameOver') \/ (levelComplete /\ ~levelComplete'))
            => Restart]_vars
    /\ [][Restart => Restarted]_vars

\* C15 witness: a game that ran frames and ended has been restarted; the new
\* game is about to run its first update
C15_Witness ==
    /\ pc = "update"
    /\ last.ran
    /\ last.landedOnGround \/ last.hit \/ last.gained > 0
    /\ keyDown
    /\ ~gameOver /\ ~levelComplete
    /\ score = 0
    /\ player = PlayerReset
    /\ \A i \in DOMAIN platforms : platforms[i].x > screenWidth

\* C16: while gameOver or levelComplete is true, a step that is not a restart
\* changes neither the player, the platforms, the clouds, the score, the
\* camera offset nor the flags: update returns at once and handleInput starts
\* no jump.
C16_EndedGameIsFrozen ==
    [][((gameOver \/ levelComplete) /\ ~Restart)
        => UNCHANGED <<player, platforms, clouds, score, cameraOffsetY,
                       gameOver, levelComplete>>]_vars

\* C16 witness: the game has ended with a jump left; handleInput has run with
\* the key held since before (no fresh press) and update is next
C16_Witness ==
    /\ gameOver \/ levelComplete
    /\ pc = "update"
    /\ keyDown
    /\ canJump(player)
    /\ last.ran

\* C17: cameraOffsetY is never positive, and after a playing update it is
\* min(0, y - 0.4 * screenHeight) for the ball's y as resolveLanding and
\* setGrounded left it.
C17_Camera ==
    /\ cameraOffsetY <= 0
    /\ AfterFrame =>
            cameraOffsetY = (IF player.y - (4 * screenHeight) \div 10 < 0
                             THEN player.y - (4 * screenHeight) \div 10
                             ELSE 0)

\* C17 witness: the ball has climbed above 0.4 * screenHeight and the camera
\* follows it
C17_Witness ==
    /\ AfterFrame
    /\ cameraOffsetY < 0
    /\ ~gameOver

\* C18: with the jump key not held, update(dt) gives vy' = vy + gravity * dt
\* and y' = y + vy' * dt, the position moving by the new velocity; from
\* vy = jumpVelocity = -550 with dt = 0.1 s this is vy' = -450 and y' = y - 45.
C18_VelocityBeforePosition ==
    [][(pc = "playerUpdate" /\ ~keyDown) =>
        /\ player'.vy = player.vy + (config.gravity * last'.dt) \div 100
        /\ player'.y = player.y + (player'.vy * last'.dt) \div 100
        /\ (player.vy = -550 /\ config.gravity = 1000 /\ last'.dt = 10) =>
                (player'.vy = -450 /\ player'.y = player.y - 45)]_vars

\* C18 witness: the example of the claim, a ball that left the ground at
\* jumpVelocity, after 0.1 s without the key held
C18_Witness ==
    /\ Returned
    /\ last.dt = 10
    /\ ~keyDown
    /\ config.gravity = gravity
    /\ player.vy = -450
    /\ player.y = groundY - 45

\* C19: the rotation of the player is in [0, 360) degrees.
C19_RotationWrapped == 0 <= player.rotation /\ player.rotation < 360

\* C20: a call of resolveLanding with vy < 0 returns landed = false and
\* landedOnGround = false and leaves y and vy as they were.
C20_OnlyWhenFalling ==
    (Returned /\ last.midVy < 0) =>
        /\ ~last.landed
        /\ ~last.landedOnGround
        /\ player.y = last.midY
        /\ player.vy = last.midVy

\* C20 witness: a call with vy < 0 and a platform that qualifies (the ball
\* has jumped off its top and the frame took no time) has left the ball in
\* its jump
C20_Witness ==
    /\ Returned
    /\ last.midVy < 0
    /\ Candidates # {}
    /\ ~last.landed
    /\ player.y = last.midY
    /\ player.vy = last.midVy

\* C21: startJump with no jump left changes no field of the player; with a
\* jump left it sets vy to jumpVelocity whatever vy was, sets isJumping and
\* hasLeftGround, clears grounded, takes exactly one jump away and sets
\* jumpHoldTimer to 0, and leaves x, y and rotation alone.
C21_StartJump ==
    [][pc = "startJump" =>
        IF player.jumpsRemaining <= 0
        THEN player' = player
        ELSE /\ player'.vy = config.jumpVelocity
             /\ player'.isJumping
             /\ player'.hasLeftGround
             /\ ~player'.grounded
             /\ player'.jumpsRemaining = player.jumpsRemaining - 1
             /\ player'.jumpHoldTimer = 0
             /\ player'.x = player.x
             /\ player'.y = player.y
             /\ player'.rotation = player.rotation]_vars

\* C21 witness: the second jump of a falling ball: vy was 300 and is now
\* jumpVelocity, and no jump is left
C21_Witness ==
    /\ pc = "returned"
    /\ last.ran
    /\ player.isJumping
    /\ last.midVy = 300
    /\ player.vy = config.jumpVelocity
    /\ player.jumpsRemaining = 0

\* C22: the time over which the extra jumpHoldAccel has been applied in a
\* jump, which is the value jumpHoldTimer has reached, never exceeds
\* maxJumpHold.
C22_HoldCapped == player.jumpHoldTimer <= maxJumpHold

\* The yTop before platform i in the loop of generate
PreviousTop(i) == IF i = 1 THEN last.prevY ELSE platforms[i - 1].yTop

\* C23: after generate the platforms are in index order: the first is a gap
\* of minGap..maxGap right of screenWidth + 200, each next one a gap of
\* minGap..maxGap right of the x of the one before (not of its right edge);
\* each yTop is the yTop before it (groundY - 20 for the first) less a step
\* of stepUpMin..stepUpMax, or minPlatformY if that is higher up, so yTop
\* never grows with the index; no platform is counted.
C23_GenerateOrder ==
    Returned =>
        /\ DOMAIN platforms = 1..totalPlatforms
        /\ last.prevY = groundY - 20 =>
                /\ platforms[1].x >= screenWidth + 200 + minGap
                /\ platforms[1].x <= screenWidth + 200 + maxGap
        /\ \A i \in 1..(totalPlatforms - 1) :
                /\ platforms[i + 1].x - platforms[i].x >= minGap
                /\ platforms[i + 1].x - platforms[i].x <= maxGap
        /\ \A i \in 1..totalPlatforms :
                /\ ~platforms[i].counted
                /\ platforms[i].yTop <= PreviousTop(i)
                /\ \E step \in stepUpMin..stepUpMax :
                        platforms[i].yTop =
                            (IF PreviousTop(i) - step < minPlatformY
                             THEN minPlatformY
                             ELSE PreviousTop(i) - step)

\* C23 witness: a fresh level whose first platform is the widest and whose
\* second platform is the largest gap from the x of the first
C23_Witness ==
    /\ Returned
    /\ last.prevY = groundY - 20
    /\ platforms[1].width = maxPlatformWidth
    /\ platforms[2].x - platforms[1].x = maxGap
    /\ platforms[2].yTop < platforms[1].yTop

\* C24: in a run in which the jump key is never pressed the game is never
\* over: every playing frame leaves the ball on the ground (y = groundY,
\* vy = 0) with hasLeftGround false, every platform is at least radius + 1
\* above the centre of the ball there and none is hit; and the run, when
\* frames that take time keep coming, reaches levelComplete.
C24_IdleRunWins ==
    /\ [](~gameOver)
    /\ [](AfterFrame =>
            /\ player.y = groundY
            /\ player.vy = 0
            /\ ~player.hasLeftGround
            /\ ~last.hit
            /\ \A i \in DOMAIN platforms :
                    platforms[i].yTop + platformHeight <= groundY - 21)
    /\ ([]<>(AfterFrame /\ last.dt > 0) => <>levelComplete)

\* The uncounted platforms that the scroll of the frame being made takes
\* behind the ball
PassingNow ==
    {i \in DOMAIN platforms :
        /\ ~platforms[i].counted
        /\ platforms[i].x - Shift + platforms[i].width < player.x - radius}

RestsOn(i) ==
    /\ player.grounded
    /\ player.vy = 0
    /\ player.y = platforms[i].yTop - radius
    /\ platforms[i].x <= player.x
    /\ player.x <= platforms[i].x + platforms[i].width

\* C26: a playing frame that starts with the ball resting on a platform top,
\* no jump started, and whose scroll leaves that platform under the ball,
\* ends with the ball still there: y = yTop - radius, vy = 0, grounded,
\* jumpsRemaining = 2 and gameOver unset.
C26_RestingBallStays ==
    [][(PlayingFrame /\ \E i \in DOMAIN platforms :
            /\ RestsOn(i)
            /\ platforms[i].x - Shift <= player.x
            /\ player.x <= platforms[i].x - Shift + platforms[i].width)
        => /\ player'.y = player.y
           /\ player'.vy = 0
           /\ player'.grounded
           /\ player'.jumpsRemaining = 2
           /\ ~gameOver']_vars

\* C26 witness: the ball has spent a whole frame on a platform top: it was
\* there before the frame, fell below the top in Player::update and was put
\* back by the landing
C26_Witness ==
    /\ AfterFrame
    /\ \E i \in DOMAIN platforms : RestsOn(i)
    /\ last.prevY = player.y
    /\ last.midY > player.y
    /\ last.landed /\ ~last.landedOnGround
    /\ ~gameOver

\* C27: no two platforms overlap horizontally: of two distinct platforms one
\* ends left of where the other begins.
C27_NoHorizontalOverlap ==
    \A i, j \in DOMAIN platforms :
        i # j =>
            \/ platforms[i].x + platforms[i].width < platforms[j].x
            \/ platforms[j].x + platforms[j].width < platforms[i].x

\* C27 witness: scroll has recycled a platform to the right of a counted
\* platform that is still in the level
C27_Witness ==
    /\ Returned
    /\ \E i, j \in DOMAIN platforms :
            /\ platforms[j].counted
            /\ ~platforms[i].counted
            /\ platforms[i].x >= minGap
            /\ platforms[i].x < screenWidth
            /\ platforms[j].x + platforms[j].width < platforms[i].x

\* C28: the handleInput that restarts the game starts no jump: it leaves the
\* ball grounded and not jumping with jumpsRemaining = 2, vy = 0 and
\* hasLeftGround false, and the update of the same frame comes next.
C28_RestartIsNoJump ==
    [][Restart =>
        /\ player'.jumpsRemaining = 2
        /\ player'.vy = 0
        /\ ~player'.hasLeftGround
        /\ ~player'.isJumping
        /\ player'.grounded
        /\ pc' = "update"]_vars

\* C28 witness: a game lost on the ground has been restarted with a press of
\* the key; the key is down, the ball has both jumps, and update is next
C28_Witness ==
    /\ pc = "update"
    /\ keyDown
    /\ last.ran /\ last.landedOnGround
    /\ ~gameOver /\ ~levelComplete
    /\ score = 0
    /\ player.jumpsRemaining = 2
    /\ player.vy = 0
    /\ ~player.hasLeftGround
    /\ \A i \in DOMAIN platforms : platforms[i].x > screenWidth

\* C29: after reset and after every update the ball is not below the ground
\* (y <= groundY), and a frame that snaps the ball to the ground ends with
\* y = groundY and vy = 0.
C29_NeverBelowGround ==
    /\ pc # "run" => player.y <= groundY
    /\ (AfterFrame /\ last.landedOnGround) =>
            (player.y = groundY /\ player.vy = 0)

\* C29 witness: a falling ball went below the ground line in Player::update
\* and the frame ended with it on the ground, still
C29_Witness ==
    /\ AfterFrame
    /\ last.landedOnGround
    /\ last.midVy > 0
    /\ last.midY > groundY
    /\ last.prevY < groundY
    /\ player.y = groundY
    /\ player.vy = 0

====
